---- MODULE Spec2Model ----
(***************************************************************************)
(* A model of the bedrock prompt facade:                                   *)
(*   - app/services/bedrock_service.py  BedrockService                     *)
(*   - app/api/routes.py                synchronous (Flask) entrypoint     *)
(*   - app/api/model_api.py             asynchronous (FastAPI) entrypoint  *)
(*   - app/client/model_client.py       ModelClient (outbound client)      *)
(*   - app/utils/aws_utils.py           AWSUtils (cloud utility facade)    *)
(* Four specifications share the variables: Spec (the HTTP surface and     *)
(* the model-invocation service), ServiceSpec (BedrockService called       *)
(* directly), ClientSpec (ModelClient against a server that answers as it  *)
(* likes) and AwsSpec (AWSUtils against a provider and a file system that  *)
(* answer as they like).                                                   *)
(***************************************************************************)
EXTENDS Integers, Sequences, FiniteSets, TLC

VARIABLES
    backend,     \* "up" | "down": whether the inference endpoint is reachable
    pydanticV2,  \* the installed pydantic validates `str` strictly (v2) or coerces (v1)
    service,     \* model_api.py's module-level bedrock_service object
    prev,        \* the HTTP exchange handled before the last one
    last,        \* the last HTTP exchange handled by the serving entrypoint
    cl,          \* ModelClient: the call in progress
    aws,         \* AWSUtils: the last operation and what its caller got
    s3,          \* the provider's bucket: key -> content
    call,        \* BedrockService: the last direct call of invoke_model
    utils,       \* the AWSUtils object: is_ec2, session, clients
    home         \* ~/.aws: the credentials and config files, profile -> entry

vars == <<backend, pydanticV2, service, prev, last, cl, aws, s3, call, utils, home>>

(***************************************************************************)
(* JSON values and request bodies                                          *)
(***************************************************************************)
NoPrompt == [t |-> "absent", v |-> ""]

Str(s) == [t |-> "str", v |-> s]

Num(s) == [t |-> "num", v |-> s]

\* what a body can carry under the key "prompt"
PromptValues == {Str(""), Str("p1"), Str("p2"), Num("7")}

\* POST bodies (all sent with Content-Type: application/json): nothing, bytes
\* that are not JSON, the JSON values null and 5, and JSON objects with or
\* without "prompt" and with or without other keys
Bodies ==
    [kind : {"no_body", "not_json", "null", "number"}, prompt : {NoPrompt}, other : {FALSE}]
      \cup [kind : {"object"}, prompt : {NoPrompt} \cup PromptValues, other : BOOLEAN]

NoBody == [kind |-> "no_body", prompt |-> NoPrompt, other |-> FALSE]

(***************************************************************************)
(* What the inference endpoint does with one call (the environment)        *)
(***************************************************************************)
Raise(m) ==
    [kind |-> "raise", msg |-> m, hasCompletion |-> FALSE, completion |-> "",
     hasPtok |-> FALSE, ptok |-> 0, hasCtok |-> FALSE, ctok |-> 0]

Malformed(k) ==
    [kind |-> k, msg |-> "", hasCompletion |-> FALSE, completion |-> "",
     hasPtok |-> FALSE, ptok |-> 0, hasCtok |-> FALSE, ctok |-> 0]

\* a JSON object: "completion" is there or not, and so is each token count
ReplyWith(hc, c, hp, p, hk, k) ==
    [kind |-> "ok", msg |-> "", hasCompletion |-> hc, completion |-> IF hc THEN c ELSE "",
     hasPtok |-> hp, ptok |-> IF hp THEN p ELSE 0, hasCtok |-> hk, ctok |-> IF hk THEN k ELSE 0]

Reply(hc, c, ht) == ReplyWith(hc, c, ht, 3, ht, 5)

NoOutcome == Malformed("none")

\* the endpoint cannot be reached: the SDK call raises
Unreachable == Raise("EndpointConnectionError")

\* a reachable endpoint throttles, answers bytes that are not JSON, answers a
\* JSON array, or answers a JSON object with or without the documented keys
UpOutcomes ==
    {Raise("ThrottlingException"), Malformed("bad_json"), Malformed("non_object")}
      \cup {Reply(hc, c, ht) : hc \in BOOLEAN, c \in {"", "c1", "c2"}, ht \in BOOLEAN}

OutcomesWhen(b) == IF b = "up" THEN UpOutcomes ELSE {Unreachable}

\* what a direct call of the service can meet: the above, and JSON objects
\* that carry one token count without the other, or a count of zero
TokenCounts == {0, 3, 5}

ServiceOutcomes ==
    {Unreachable, Raise("ThrottlingException"), Malformed("bad_json"), Malformed("non_object")}
      \cup {ReplyWith(hc, c, hp, p, hk, k) :
               hc \in BOOLEAN, c \in {"", "c1"}, hp \in BOOLEAN, p \in TokenCounts,
               hk \in BOOLEAN, k \in TokenCounts}

(***************************************************************************)
(* app/services/bedrock_service.py                                         *)
(***************************************************************************)
MODEL_ID == "anthropic.claude-v2"

MAX_TOKENS_TO_SAMPLE == 2048

NoResult == [generated_text |-> "", model_id |-> "", prompt_tokens |-> 0, completion_tokens |-> 0, set |-> FALSE]

NoRequest == [modelId |-> "", prompt |-> NoPrompt, max_tokens_to_sample |-> 0,
              temperature |-> "", top_p |-> 0, stop_sequences |-> <<>>]

\* BedrockService.__init__(self, aws_utils): aws_utils is a required positional
\* argument; args is the tuple of arguments of the call
BedrockService_init(args) ==
    IF Len(args) # 1
      THEN [raised |-> TRUE, msg |-> "TypeError: missing 1 required positional argument: 'aws_utils'",
            obj |-> [aws_utils |-> "", bedrock_runtime |-> ""]]
      ELSE [raised |-> FALSE, msg |-> "",
            obj |-> [aws_utils |-> args[1].name, bedrock_runtime |-> args[1].bedrock_runtime]]

\* a variant that wraps the prompt in the conversational template
RequestBody_wrapping(prompt) ==
    [modelId |-> MODEL_ID, prompt |-> Str("Human: " \o prompt.v),
     max_tokens_to_sample |-> MAX_TOKENS_TO_SAMPLE,
     temperature |-> "0.7", top_p |-> 1, stop_sequences |-> <<"\n\nHuman:">>]

\* the request body (lines 25-31) and the model id (line 35) of the call
RequestBody(prompt) ==
    [modelId |-> MODEL_ID, prompt |-> prompt, max_tokens_to_sample |-> MAX_TOKENS_TO_SAMPLE,
     temperature |-> "0.7", top_p |-> 1, stop_sequences |-> <<"\n\nHuman:">>]

\* json.dumps(request_body) (line 36): a str becomes a JSON string, a number
\* a JSON number; the other values are literals of the code
JsonDumps(req) ==
    [modelId |-> req.modelId,
     body |-> [prompt |-> [json |-> IF req.prompt.t = "str" THEN "string" ELSE "number",
                           text |-> req.prompt.v],
               max_tokens_to_sample |-> req.max_tokens_to_sample,
               temperature |-> req.temperature, top_p |-> req.top_p,
               stop_sequences |-> req.stop_sequences]]

\* what the endpoint reads back from the bytes it received
JsonLoads(wire) ==
    [modelId |-> wire.modelId,
     prompt |-> IF wire.body.prompt.json = "string" THEN Str(wire.body.prompt.text)
                                                   ELSE Num(wire.body.prompt.text),
     max_tokens_to_sample |-> wire.body.max_tokens_to_sample,
     temperature |-> wire.body.temperature, top_p |-> wire.body.top_p,
     stop_sequences |-> wire.body.stop_sequences]

\* the dict of lines 42-47, from the parsed response body
NormalizedResponse_dropping(o) ==
    [generated_text |-> "", model_id |-> MODEL_ID,
     prompt_tokens |-> IF o.hasPtok THEN o.ptok ELSE 0,
     completion_tokens |-> IF o.hasCtok THEN o.ctok ELSE 0, set |-> TRUE]

NormalizedResponse(o) ==
    [generated_text |-> IF o.hasCompletion THEN o.completion ELSE "",
     model_id |-> MODEL_ID,
     prompt_tokens |-> IF o.hasPtok THEN o.ptok ELSE 0,
     completion_tokens |-> IF o.hasCtok THEN o.ctok ELSE 0, set |-> TRUE]

\* logger.error(...) of line 50: the records the service emits for a failure
ServiceErrorLogs_silent == 1 - 1

ServiceErrorLogs == 1

Failed(self, prompt, m) ==
    [raised |-> TRUE, msg |-> m, value |-> NoResult, errLogs |-> ServiceErrorLogs,
     sent |-> RequestBody(prompt), self |-> self]

\* a variant that drops its client handle when a call fails
BedrockService_invoke_model_poisoning(self, prompt, o) ==
    IF self.bedrock_runtime = "None"
      THEN Failed(self, prompt, "'NoneType' object has no attribute 'invoke_model'")
    ELSE IF o.kind = "raise"
      THEN Failed([self EXCEPT !.bedrock_runtime = "None"], prompt, o.msg)
    ELSE IF o.kind # "ok"
      THEN Failed([self EXCEPT !.bedrock_runtime = "None"], prompt, "Expecting value")
    ELSE [raised |-> FALSE, msg |-> "", value |-> NormalizedResponse(o), errLogs |-> 0,
          sent |-> RequestBody(prompt), self |-> self]

\* BedrockService.invoke_model(self, prompt) when the endpoint does o: what is
\* raised or returned, the error records logged, the request sent, and the
\* object afterwards (no attribute is assigned)
BedrockService_invoke_model(self, prompt, o) ==
    IF self.bedrock_runtime = "None"
      THEN Failed(self, prompt, "'NoneType' object has no attribute 'invoke_model'")
    ELSE IF o.kind = "raise"
      THEN Failed(self, prompt, o.msg)                   \* lines 34-37 raise
    ELSE IF o.kind = "bad_json"
      THEN Failed(self, prompt, "Expecting value")       \* line 40: json.loads raises
    ELSE IF o.kind = "non_object"
      THEN Failed(self, prompt, "'list' object has no attribute 'get'")
    ELSE [raised |-> FALSE, msg |-> "", value |-> NormalizedResponse(o), errLogs |-> 0,
          sent |-> RequestBody(prompt), self |-> self]

(***************************************************************************)
(* app/utils/aws_utils.py: construction (lines 12-28, 44-60)               *)
(***************************************************************************)
AWSUtils_initialize_session(is_ec2, profile_name, region) ==
    IF is_ec2 THEN [profile |-> "", region |-> region]
              ELSE [profile |-> profile_name, region |-> region]

\* built_from is the session whose client(...) made the five clients
AWSUtils_init(is_ec2, profile_name, region) ==
    [name |-> "aws_utils", is_ec2 |-> is_ec2,
     session |-> AWSUtils_initialize_session(is_ec2, profile_name, region),
     s3_client |-> "s3", lambda_client |-> "lambda", bedrock_runtime |-> "bedrock-runtime",
     ec2_client |-> "ec2", sts_client |-> "sts",
     built_from |-> AWSUtils_initialize_session(is_ec2, profile_name, region)]

(***************************************************************************)
(* HTTP responses                                                          *)
(***************************************************************************)
\* {"status": "healthy"}
HealthyBody == [kind |-> "status", msg |-> "healthy", result |-> NoResult]

\* {"error": m}
ErrorBody(m) == [kind |-> "error", msg |-> m, result |-> NoResult]

\* {"detail": m}
DetailBody(m) == [kind |-> "detail", msg |-> m, result |-> NoResult]

\* the service's dict itself (routes.py) or wrapped as {"response": dict} (model_api.py)
ResultBody(k, r) == [kind |-> k, msg |-> "", result |-> r]

NoBodyAnswer == [kind |-> "none", msg |-> "", result |-> NoResult]

MissingPrompt == "Missing prompt in request"

\* what handling one request came to
Handled(self, status, resp, errLogs, svcCalls, svcPrompt, sent) ==
    [status |-> status, resp |-> resp, errLogs |-> errLogs, svcCalls |-> svcCalls,
     svcPrompt |-> svcPrompt, sent |-> sent, self |-> self]

\* no HTTP answer at all: nothing listens
Refused(self) == Handled(self, 0, NoBodyAnswer, 0, 0, NoPrompt, NoRequest)

(***************************************************************************)
(* app/api/routes.py: the synchronous entrypoint                           *)
(***************************************************************************)
\* line 7, run when the module is imported: bedrock_service = BedrockService()
routes_module ==
    LET made == BedrockService_init(<<>>)
    IN  [loaded |-> ~made.raised, error |-> made.msg, bedrock_service |-> made.obj]

\* lines 9-11
routes_health_check == Handled(routes_module.bedrock_service, 200, HealthyBody, 0, 0, NoPrompt, NoRequest)

\* lines 13-24. request.get_json() raises BadRequest on an empty or undecodable
\* body, and the handler's except clause catches it like any other exception
routes_invoke_model(self, body, o) ==
    IF body.kind \in {"no_body", "not_json"}
      THEN Handled(self, 500, ErrorBody("400 Bad Request: Failed to decode JSON object"),
                   1, 0, NoPrompt, NoRequest)
    ELSE IF body.kind = "null"
      THEN Handled(self, 400, ErrorBody(MissingPrompt), 0, 0, NoPrompt, NoRequest)
    ELSE IF body.kind = "number"   \* 'prompt' not in 5 raises TypeError
      THEN Handled(self, 500, ErrorBody("argument of type 'int' is not iterable"),
                   1, 0, NoPrompt, NoRequest)
    ELSE IF body.prompt = NoPrompt
      THEN Handled(self, 400, ErrorBody(MissingPrompt), 0, 0, NoPrompt, NoRequest)
    ELSE LET r == BedrockService_invoke_model(self, body.prompt, o)
         IN  IF r.raised
               THEN Handled(r.self, 500, ErrorBody(r.msg), r.errLogs + 1, 1, body.prompt, r.sent)
               ELSE Handled(r.self, 200, ResultBody("result", r.value), r.errLogs, 1, body.prompt, r.sent)

\* what the synchronous surface answers: the handlers exist only if the module loaded
routes_answer(route, body, o) ==
    IF ~routes_module.loaded THEN Refused(routes_module.bedrock_service)
    ELSE IF route = "health" THEN routes_health_check
    ELSE routes_invoke_model(routes_module.bedrock_service, body, o)

(***************************************************************************)
(* app/api/model_api.py: the asynchronous entrypoint                       *)
(***************************************************************************)
\* lines 14-16, run when the module is imported
model_api_module(is_ec2) ==
    LET made == BedrockService_init(<<AWSUtils_init(is_ec2, "", "")>>)
    IN  [loaded |-> ~made.raised, error |-> made.msg, bedrock_service |-> made.obj]

\* class ModelRequest(BaseModel): prompt: str  (lines 18-19), as the framework
\* applies it to the body before the handler runs. pydantic 1 coerces a number
\* to its string, pydantic 2 rejects it.
ModelRequest(body, v2) ==
    IF body.kind # "object" \/ body.prompt = NoPrompt
      THEN [valid |-> FALSE, prompt |-> NoPrompt]
    ELSE IF body.prompt.t = "str"
      THEN [valid |-> TRUE, prompt |-> body.prompt]
    ELSE IF v2
      THEN [valid |-> FALSE, prompt |-> NoPrompt]
      ELSE [valid |-> TRUE, prompt |-> Str(body.prompt.v)]

\* logger.error(...) of line 30
HandlerErrorLogs == 1

\* lines 24-31: the handler, given the validated request
model_api_invoke_model(self, request, o) ==
    LET r == BedrockService_invoke_model(self, request.prompt, o)
    IN  IF r.raised
          THEN Handled(r.self, 500, DetailBody(r.msg), r.errLogs + HandlerErrorLogs, 1,
                       request.prompt, r.sent)
          ELSE Handled(r.self, 200, ResultBody("response", r.value), r.errLogs, 1,
                       request.prompt, r.sent)

\* lines 33-35: a variant that probes the backend
model_api_health_check_probing ==
    IF backend = "up"
      THEN Handled(service, 200, HealthyBody, 0, 0, NoPrompt, NoRequest)
      ELSE Handled(service, 503, DetailBody("unhealthy"), 0, 0, NoPrompt, NoRequest)

\* lines 33-35
model_api_health_check == Handled(service, 200, HealthyBody, 0, 0, NoPrompt, NoRequest)

\* @app.post("/model/invoke"): a body that fails validation is answered 422
\* by the framework and the handler does not run
model_api_post(self, body, o, v2) ==
    LET request == ModelRequest(body, v2)
    IN  IF ~request.valid
          THEN Handled(self, 422, DetailBody("validation error"), 0, 0, NoPrompt, NoRequest)
          ELSE model_api_invoke_model(self, request, o)

(***************************************************************************)
(* app/client/model_client.py: ModelClient                                 *)
(***************************************************************************)
MaxRetriesBound == 3

DEFAULT_MAX_RETRIES == 3

\* what the server (or the network) does with one attempt
Answered(code) == [kind |-> "status", code |-> code]

ReadTimeout == [kind |-> "read_timeout", code |-> 0]

ConnectTimeout == [kind |-> "connect_timeout", code |-> 0]

ConnectionRefused == [kind |-> "refused", code |-> 0]

NoAnswer == [kind |-> "none", code |-> 0]

Answers ==
    {Answered(c) : c \in {200, 400, 404, 500, 502, 503, 504}}
      \cup {ReadTimeout, ConnectTimeout, ConnectionRefused}

\* the HTTP method of each operation: session.post (line 59), session.get (line 79)
MethodOf(op) == IF op = "invoke_model" THEN "POST" ELSE "GET"

\* Retry(total=max_retries, ...), line 34
RetryTotal_one_more(max_retries) == max_retries + 1

RetryTotal(max_retries) == max_retries

\* status_forcelist=[500, 502, 503, 504], line 36
StatusForcelist == {500, 502, 503, 504}

\* Retry's allowed methods are left at the library's default, which has no POST
AllowedMethods == {"HEAD", "GET", "PUT", "DELETE", "OPTIONS", "TRACE"}

\* Retry.is_retry(method, status_code) for a response without Retry-After
IsRetry(method, code) == method \in AllowedMethods /\ code \in StatusForcelist

Pow2(n) == IF n <= 0 THEN 1 ELSE 2 ^ n

\* backoff_factor=0.5 (line 35), in half seconds: Retry.get_backoff_time()
\* after `errors` consecutive failed attempts is 0 for the first and
\* backoff_factor * 2^(errors-1) after it, at most 120 s
BackoffFactor == 1

Backoff_flat(errors) == IF errors <= 1 THEN 0 ELSE BackoffFactor

Backoff(errors) ==
    IF errors <= 1 THEN 0
    ELSE IF BackoffFactor * Pow2(errors - 1) > 240 THEN 240
    ELSE BackoffFactor * Pow2(errors - 1)

Returned == [kind |-> "returned", type |-> ""]

Raised(t) == [kind |-> "raised", type |-> t]

Pending == [kind |-> "pending", type |-> ""]

\* ModelClient.__init__ and _create_session (lines 11-42)
ModelClient_init(max_retries) ==
    [max_retries |-> max_retries, op |-> "none", pc |-> "idle",
     total |-> RetryTotal(max_retries), errors |-> 0, attempts |-> 0, sleeps |-> <<>>,
     first |-> NoAnswer, uniform |-> TRUE, lastAnswer |-> NoAnswer,
     result |-> Pending, errLogs |-> 0]

\* what HTTPAdapter.send does with one attempt's answer a, the Retry object
\* having `total` retries left: retry, or hand a response or an exception of
\* requests.exceptions to the session's caller
AdapterStep(method, total, a) ==
    IF a.kind = "status"
      THEN IF IsRetry(method, a.code)
             THEN IF total - 1 < 0 THEN [next |-> "raise", type |-> "RetryError"]
                                   ELSE [next |-> "retry", type |-> ""]
             ELSE [next |-> "response", type |-> ""]
    ELSE IF a.kind = "read_timeout"
      THEN IF method \notin AllowedMethods THEN [next |-> "raise", type |-> "ReadTimeout"]
           ELSE IF total - 1 < 0 THEN [next |-> "raise", type |-> "ConnectionError"]
           ELSE [next |-> "retry", type |-> ""]
    ELSE IF total - 1 < 0
      THEN [next |-> "raise",
            type |-> IF a.kind = "connect_timeout" THEN "ConnectTimeout" ELSE "ConnectionError"]
      ELSE [next |-> "retry", type |-> ""]

\* requests.exceptions.Timeout and its subclasses
RequestsTimeouts == {"Timeout", "ConnectTimeout", "ReadTimeout"}

\* the except clauses of invoke_model (lines 68-74) and health_check (lines 85-87):
\* the exception the operation raises for the exception t of requests
Surfaced(op, t) ==
    IF op = "invoke_model" /\ t \in RequestsTimeouts THEN "TimeoutError" ELSE t

\* a variant that hands a client-error body back to the caller
AfterResponse_lenient(op, code) ==
    IF code >= 500 THEN Raised(Surfaced(op, "HTTPError")) ELSE Returned

\* response.raise_for_status(); return response.json()  (lines 65-66, 83-84)
AfterResponse(op, code) ==
    IF code >= 400 THEN Raised(Surfaced(op, "HTTPError")) ELSE Returned


(***************************************************************************)
(* app/utils/aws_utils.py: the facade's operations                         *)
(***************************************************************************)
Keys == {"k1", "k2"}

Contents == {"a", "b"}

Absent == "<absent>"

EmptyBucket == [k \in Keys |-> Absent]

\* Python values handed to the caller
Val(t, text, items) == [t |-> t, text |-> text, items |-> items]

PyTrue == Val("bool", "True", <<>>)

PyFalse == Val("bool", "False", <<>>)

PyNone == Val("none", "", <<>>)

PyList(items) == Val("list", "", items)

PyBytes(b) == Val("bytes", b, <<>>)

PyStr(x) == Val("str", x, <<>>)

PyDict(keys) == Val("dict", "", keys)

\* what the SDK call does: it returns, raises botocore's ClientError (the
\* service answered with an error), or raises another botocore error
\* (EndpointConnectionError, NoCredentialsError, ...: not ClientError subclasses)
ProviderOutcomes == {"ok", "ClientError", "BotoCoreError"}

Gave(v) == [kind |-> "returned", type |-> "", value |-> v]

Propagated(t) == [kind |-> "raised", type |-> t, value |-> PyNone]

\* try: ... except ClientError as e: logger.error(...); return onError
\* the one shape of every operation below: any other exception passes through
Guarded(p, onOk, onError) ==
    IF p = "ok" THEN Gave(onOk)
    ELSE IF p = "ClientError" THEN Gave(onError)
    ELSE Propagated(p)

\* the keys present in the bucket, in order
ListedKeys(b) ==
    IF b["k1"] # Absent
      THEN IF b["k2"] # Absent THEN <<"k1", "k2">> ELSE <<"k1">>
      ELSE IF b["k2"] # Absent THEN <<"k2">> ELSE <<>>

\* lines 165-176
AWSUtils_upload_to_s3(p) == Guarded(p, PyTrue, PyFalse)

\* lines 178-187
AWSUtils_download_from_s3(p, b, key) == Guarded(p, PyBytes(b[key]), PyNone)

\* lines 189-198: response.get('Contents', [])
AWSUtils_list_s3_objects(p, b) == Guarded(p, PyList(ListedKeys(b)), PyList(<<>>))

\* lines 201-217
AWSUtils_invoke_lambda(p) ==
    Guarded(p, PyDict(<<"StatusCode", "Payload">>), PyDict(<<"StatusCode", "Error">>))

\* lines 219-228
AWSUtils_list_lambda_functions(p) == Guarded(p, PyList(<<"fn1">>), PyList(<<>>))

\* lines 231-255
AWSUtils_invoke_bedrock_model(p) == Guarded(p, PyDict(<<"completion">>), PyDict(<<"error">>))

\* lines 278-293
AWSUtils_get_lambda_function_arn(p) ==
    Guarded(p, PyStr("arn:aws:lambda:r:123:function:fn1"), PyNone)

\* lines 295-307
AWSUtils_get_current_account_id(p) == Guarded(p, PyStr("123"), PyNone)

(***************************************************************************)
(* app/utils/aws_utils.py: setup_local_credentials (lines 62-138)          *)
(***************************************************************************)
\* the names the module binds before the class body runs (lines 1-11)
ModuleNames ==
    {"boto3", "json", "ClientError", "Dict", "Any", "List", "Union", "Optional",
     "logging", "requests", "logger", "AWSUtils"}

Profiles == {"default", "dev"}

Regions == {"us-east-1", "eu-west-1"}

AccessKeys == {"AKIA1", "AKIA2"}

SecretKey == "s3cr3t"

\* line 116: the section of ~/.aws/config that holds a profile
ConfigSection(profile_name) ==
    IF profile_name # "default" THEN "profile " \o profile_name ELSE "default"

ConfigSections == {ConfigSection(q) : q \in Profiles}

Credential(id, secret) == [aws_access_key_id |-> id, aws_secret_access_key |-> secret]

NoCredential == Credential("", "")

\* ~/.aws with neither file written
EmptyHome == [credentials |-> [q \in Profiles |-> NoCredential],
              config |-> [c \in ConfigSections |-> ""]]

\* the file system lets the directory and the files be written, or not; the
\* SDK builds the session and the clients, or raises
FileOutcomes == {"ok", "OSError"}

SdkOutcomes == {"ok", "BotoCoreError"}

\* lines 104-105 and 120-121: both files after the writes
WrittenHome(files, id, secret, region, profile_name) ==
    [credentials |-> [files.credentials EXCEPT ![profile_name] = Credential(id, secret)],
     config |-> [files.config EXCEPT ![ConfigSection(profile_name)] = region]]

\* lines 124-131: the session and the five clients are rebuilt
Reinitialized(self, profile_name, region) ==
    [self EXCEPT !.session = AWSUtils_initialize_session(self.is_ec2, profile_name, region),
                 !.built_from = AWSUtils_initialize_session(self.is_ec2, profile_name, region)]

SetupGave(v, self, files, logs) == [value |-> v, self |-> self, files |-> files, errLogs |-> logs]

\* AWSUtils.setup_local_credentials(self, id, secret, region, profile_name)
\* with ~/.aws holding `files`, the file system doing fs and the SDK doing sdk.
\* Every exception raised inside the try block (lines 83-134), the NameError
\* of a name the module does not bind included, is caught at line 136, logged
\* and turned into False.
AWSUtils_setup_local_credentials(self, files, id, secret, region, profile_name, fs, sdk) ==
    IF self.is_ec2
      THEN SetupGave(PyFalse, self, files, 0)                        \* lines 79-81
    ELSE IF "Path" \notin ModuleNames
      THEN SetupGave(PyFalse, self, files, 1)                        \* line 85
    ELSE IF fs # "ok"
      THEN SetupGave(PyFalse, self, files, 1)                        \* line 86
    ELSE IF "configparser" \notin ModuleNames
      THEN SetupGave(PyFalse, self, files, 1)                        \* line 89
    ELSE IF sdk # "ok"
      THEN SetupGave(PyFalse, self,
                     WrittenHome(files, id, secret, region, profile_name), 1)
    ELSE SetupGave(PyTrue, Reinitialized(self, profile_name, region),
                   WrittenHome(files, id, secret, region, profile_name), 0)

NoArgs == [aws_access_key_id |-> "", aws_secret_access_key |-> "", region |-> "",
           profile_name |-> "", sdk |-> "ok", self |-> AWSUtils_init(FALSE, "", ""),
           files |-> EmptyHome]

\* args: the arguments of setup_local_credentials, what the SDK did, and the
\* object and the files as the call found them
AwsDid(op, p, key, r) == [op |-> op, provider |-> p, key |-> key, result |-> r, args |-> NoArgs]

AwsSetUp(fs, args, r) ==
    [AwsDid("setup_local_credentials", fs, args.profile_name, r) EXCEPT !.args = args]

(***************************************************************************)
(* BedrockService called directly                                          *)
(***************************************************************************)
NoCall == [made |-> FALSE, prompt |-> NoPrompt, outcome |-> NoOutcome, raised |-> FALSE,
           value |-> NoResult, wire |-> JsonDumps(NoRequest)]

(***************************************************************************)
(* The HTTP surface as a state machine                                     *)
(***************************************************************************)
Exchange(route, body, o, h) ==
    [route |-> route, body |-> body,
     outcome |-> IF h.svcCalls = 0 THEN NoOutcome ELSE o,  \* of the call made, if any
     backend |-> backend,
     status |-> h.status, resp |-> h.resp, errLogs |-> h.errLogs,
     svcCalls |-> h.svcCalls, svcPrompt |-> h.svcPrompt, sent |-> h.sent]

NoExchange ==
    [route |-> "none", body |-> NoBody, outcome |-> NoOutcome, backend |-> "up",
     status |-> 0, resp |-> NoBodyAnswer, errLogs |-> 0,
     svcCalls |-> 0, svcPrompt |-> NoPrompt, sent |-> NoRequest]

ClientIdle == ModelClient_init(DEFAULT_MAX_RETRIES)

AwsIdle == AwsDid("none", "ok", "", Gave(PyNone))

HttpInit ==
    /\ backend \in {"up", "down"}
    /\ pydanticV2 \in BOOLEAN
    /\ \E is_ec2 \in BOOLEAN : service = model_api_module(is_ec2).bedrock_service
    /\ prev = NoExchange
    /\ last = NoExchange

\* GET /health
Health ==
    /\ last' = Exchange("health", NoBody, NoOutcome, model_api_health_check)
    /\ prev' = last
    /\ UNCHANGED <<backend, pydanticV2, service, cl, aws, s3, call, utils, home>>

\* POST /model/invoke with some body, while the endpoint does o
Invoke ==
    \E body \in Bodies, o \in OutcomesWhen(backend) :
        LET h == model_api_post(service, body, o, pydanticV2)
        IN  /\ last' = Exchange("invoke", body, o, h)
            /\ prev' = last
            /\ service' = h.self
            /\ UNCHANGED <<backend, pydanticV2, cl, aws, s3, call, utils, home>>

\* the inference endpoint goes away or comes back
BackendFlip ==
    /\ backend' = IF backend = "up" THEN "down" ELSE "up"
    /\ UNCHANGED <<pydanticV2, service, prev, last, cl, aws, s3, call, utils, home>>

Init ==
    /\ HttpInit
    /\ cl = ClientIdle
    /\ aws = AwsIdle
    /\ s3 = EmptyBucket
    /\ call = NoCall
    /\ utils = AWSUtils_init(FALSE, "", "")
    /\ home = EmptyHome

Next == Health \/ Invoke \/ BackendFlip

Spec == Init /\ [][Next]_vars

(***************************************************************************)
(* BedrockService as a state machine: a caller calls invoke_model          *)
(***************************************************************************)
ServiceInit ==
    /\ backend = "up"
    /\ pydanticV2 = TRUE
    /\ service = model_api_module(FALSE).bedrock_service
    /\ prev = NoExchange
    /\ last = NoExchange
    /\ cl = ClientIdle
    /\ aws = AwsIdle
    /\ s3 = EmptyBucket
    /\ call = NoCall
    /\ utils = AWSUtils_init(FALSE, "", "")
    /\ home = EmptyHome

\* service.invoke_model(prompt) while the endpoint does o
ServiceCall ==
    \E prompt \in PromptValues, o \in ServiceOutcomes :
        LET r == BedrockService_invoke_model(service, prompt, o)
        IN  /\ call' = [made |-> TRUE, prompt |-> prompt, outcome |-> o, raised |-> r.raised,
                        value |-> r.value, wire |-> JsonDumps(r.sent)]
            /\ service' = r.self
            /\ UNCHANGED <<backend, pydanticV2, prev, last, cl, aws, s3, utils, home>>

ServiceNext == ServiceCall

ServiceSpec == ServiceInit /\ [][ServiceNext]_vars

(***************************************************************************)
(* ModelClient as a state machine                                          *)
(***************************************************************************)
ClientInit ==
    /\ backend = "up"
    /\ pydanticV2 = TRUE
    /\ service = model_api_module(FALSE).bedrock_service
    /\ prev = NoExchange
    /\ last = NoExchange
    /\ cl \in {ModelClient_init(m) : m \in 0..MaxRetriesBound}
    /\ aws = AwsIdle
    /\ s3 = EmptyBucket
    /\ call = NoCall
    /\ utils = AWSUtils_init(FALSE, "", "")
    /\ home = EmptyHome

\* the caller calls client.invoke_model(prompt) or client.health_check()
ClientCall ==
    /\ cl.pc \in {"idle", "done"}
    /\ \E op \in {"invoke_model", "health_check"} :
         cl' = [ModelClient_init(cl.max_retries) EXCEPT !.op = op, !.pc = "attempt"]
    /\ UNCHANGED <<backend, pydanticV2, service, prev, last, aws, s3, call, utils, home>>

\* one attempt is sent and the server (or the network) answers it
ClientAttempt ==
    /\ cl.pc = "attempt"
    /\ \E a \in Answers :
         LET step == AdapterStep(MethodOf(cl.op), cl.total, a)
             seen == [cl EXCEPT !.attempts = @ + 1,
                                !.first = IF cl.attempts = 0 THEN a ELSE @,
                                !.uniform = @ /\ (cl.attempts = 0 \/ a = cl.first),
                                !.lastAnswer = a]
         IN  cl' = IF step.next = "retry"
                     THEN [seen EXCEPT !.total = @ - 1, !.errors = @ + 1, !.pc = "sleep"]
                   ELSE IF step.next = "raise"
                     THEN [seen EXCEPT !.total = @ - 1, !.errors = @ + 1, !.pc = "done",
                                       !.result = Raised(Surfaced(cl.op, step.type)),
                                       !.errLogs = 1]
                   ELSE [seen EXCEPT !.pc = "done",
                                     !.result = AfterResponse(cl.op, a.code),
                                     !.errLogs = IF a.code >= 400 THEN 1 ELSE 0]
    /\ UNCHANGED <<backend, pydanticV2, service, prev, last, aws, s3, call, utils, home>>

\* Retry.sleep(): the wait before the next attempt
ClientBackoff ==
    /\ cl.pc = "sleep"
    /\ cl' = [cl EXCEPT !.sleeps = Append(@, Backoff(cl.errors)), !.pc = "attempt"]
    /\ UNCHANGED <<backend, pydanticV2, service, prev, last, aws, s3, call, utils, home>>

ClientNext == ClientCall \/ ClientAttempt \/ ClientBackoff

ClientSpec == ClientInit /\ [][ClientNext]_vars

(***************************************************************************)
(* AWSUtils as a state machine: a caller uses one operation at a time      *)
(***************************************************************************)
AwsInit ==
    /\ backend = "up"
    /\ pydanticV2 = TRUE
    /\ service = model_api_module(FALSE).bedrock_service
    /\ prev = NoExchange
    /\ last = NoExchange
    /\ cl = ClientIdle
    /\ aws = AwsIdle
    /\ s3 \in [Keys -> Contents \cup {Absent}]
    /\ call = NoCall
    /\ utils \in {AWSUtils_init(is_ec2, "", "") : is_ec2 \in BOOLEAN}
    /\ home \in {EmptyHome, WrittenHome(EmptyHome, "AKIA0", SecretKey, "us-east-1", "default")}

AwsFrame == UNCHANGED <<backend, pydanticV2, service, prev, last, cl, call>>

\* put_object stores the (encoded) content when the provider accepts it
UploadToS3 ==
    \E p \in ProviderOutcomes, key \in Keys, c \in Contents :
        /\ aws' = AwsDid("upload_to_s3", p, key, AWSUtils_upload_to_s3(p))
        /\ s3' = IF p = "ok" THEN [s3 EXCEPT ![key] = c] ELSE s3
        /\ UNCHANGED <<utils, home>>
        /\ AwsFrame

\* get_object of a key that is not there is a ClientError (NoSuchKey)
DownloadFromS3 ==
    \E p \in ProviderOutcomes, key \in Keys :
        /\ (p = "ok") => s3[key] # Absent
        /\ aws' = AwsDid("download_from_s3", p, key, AWSUtils_download_from_s3(p, s3, key))
        /\ UNCHANGED <<s3, utils, home>>
        /\ AwsFrame

ListS3Objects ==
    \E p \in ProviderOutcomes :
        /\ aws' = AwsDid("list_s3_objects", p, "", AWSUtils_list_s3_objects(p, s3))
        /\ UNCHANGED <<s3, utils, home>>
        /\ AwsFrame

InvokeLambda ==
    \E p \in ProviderOutcomes :
        /\ aws' = AwsDid("invoke_lambda", p, "", AWSUtils_invoke_lambda(p))
        /\ UNCHANGED <<s3, utils, home>>
        /\ AwsFrame

ListLambdaFunctions ==
    \E p \in ProviderOutcomes :
        /\ aws' = AwsDid("list_lambda_functions", p, "", AWSUtils_list_lambda_functions(p))
        /\ UNCHANGED <<s3, utils, home>>
        /\ AwsFrame

InvokeBedrockModel ==
    \E p \in ProviderOutcomes :
        /\ aws' = AwsDid("invoke_bedrock_model", p, "", AWSUtils_invoke_bedrock_model(p))
        /\ UNCHANGED <<s3, utils, home>>
        /\ AwsFrame

GetLambdaFunctionArn ==
    \E p \in ProviderOutcomes :
        /\ aws' = AwsDid("get_lambda_function_arn", p, "", AWSUtils_get_lambda_function_arn(p))
        /\ UNCHANGED <<s3, utils, home>>
        /\ AwsFrame

GetCurrentAccountId ==
    \E p \in ProviderOutcomes :
        /\ aws' = AwsDid("get_current_account_id", p, "", AWSUtils_get_current_account_id(p))
        /\ UNCHANGED <<s3, utils, home>>
        /\ AwsFrame

\* setup_local_credentials(id, secret, region, profile_name) on the object
SetupLocalCredentials ==
    \E id \in AccessKeys, region \in Regions, profile_name \in Profiles,
       fs \in FileOutcomes, sdk \in SdkOutcomes :
        LET r == AWSUtils_setup_local_credentials(utils, home, id, SecretKey, region,
                                                  profile_name, fs, sdk)
            args == [aws_access_key_id |-> id, aws_secret_access_key |-> SecretKey,
                     region |-> region, profile_name |-> profile_name, sdk |-> sdk,
                     self |-> utils, files |-> home]
        IN  /\ aws' = AwsSetUp(fs, args, Gave(r.value))
            /\ utils' = r.self
            /\ home' = r.files
            /\ UNCHANGED s3
            /\ AwsFrame

AwsNext ==
    \/ UploadToS3 \/ DownloadFromS3 \/ ListS3Objects
    \/ InvokeLambda \/ ListLambdaFunctions \/ InvokeBedrockModel
    \/ GetLambdaFunctionArn \/ GetCurrentAccountId
    \/ SetupLocalCredentials

AwsSpec == AwsInit /\ [][AwsNext]_vars

(***************************************************************************)
(* Properties of the HTTP surface, checked under Spec.  `last` is the last *)
(* exchange of the serving entrypoint (model_api.py); routes.py cannot be  *)
(* imported (routes_module.loaded is FALSE), so it handles no request.     *)
(***************************************************************************)
IsFailure(o) == o.kind \in {"raise", "bad_json", "non_object"}

\* C1 (as claimed): every POST /model/invoke whose body carries no prompt is
\* answered 400 {"error": "Missing prompt in request"} and the service is
\* not called.
C1_MissingPromptIs400 ==
    (last.route = "invoke" /\ last.body.prompt = NoPrompt)
        => (last.status = 400 /\ last.resp = ErrorBody(MissingPrompt) /\ last.svcCalls = 0)

\* C2: when the backend call made for a POST /model/invoke succeeds, the
\* answer is 200 and its generated_text is the completion the backend
\* returned, unchanged.
C2_SuccessIsVerbatim ==
    (last.route = "invoke" /\ last.body.prompt # NoPrompt /\ last.outcome.kind = "ok")
        => /\ last.status = 200
           /\ last.resp.result.set
           /\ last.outcome.hasCompletion
                => last.resp.result.generated_text = last.outcome.completion

C2_Witness ==
    /\ last.route = "invoke"
    /\ last.outcome.kind = "ok"
    /\ last.outcome.hasCompletion
    /\ last.outcome.completion = "c2"
    /\ last.status = 200
    /\ last.resp.result.generated_text = "c2"

\* C3 (as claimed): a backend or parse error gives 500 with the error's
\* message in the body and exactly one error log record for the request.
C3_FailureLoggedOnce ==
    (last.route = "invoke" /\ last.body.prompt # NoPrompt /\ IsFailure(last.outcome))
        => /\ last.status = 500
           /\ last.resp.msg # ""
           /\ last.outcome.kind = "raise" => last.resp.msg = last.outcome.msg
           /\ last.errLogs = 1

\* C3 (amended): a backend or parse error gives 500 with the error's message
\* in the body and exactly two error log records: one emitted by
\* BedrockService.invoke_model, one by the entrypoint's handler.
C3_FailureLoggedTwice ==
    (last.route = "invoke" /\ last.body.prompt # NoPrompt /\ IsFailure(last.outcome))
        => /\ last.status = 500
           /\ last.resp.msg # ""
           /\ last.outcome.kind = "raise" => last.resp.msg = last.outcome.msg
           /\ last.errLogs = 2

C3_Witness ==
    /\ last.route = "invoke"
    /\ last.outcome = Raise("ThrottlingException")
    /\ last.status = 500
    /\ last.resp.msg = "ThrottlingException"
    /\ last.errLogs = 2

\* C4: GET /health is answered 200 {"status": "healthy"} whatever the
\* backend's availability and whatever was handled before, without a call
\* of the service and without an error record.
C4_HealthAlwaysHealthy ==
    last.route = "health"
        => /\ last.status = 200
           /\ last.resp = HealthyBody
           /\ last.svcCalls = 0
           /\ last.errLogs = 0

C4_Witness ==
    /\ last.route = "health"
    /\ last.backend = "down"
    /\ prev.route = "invoke"
    /\ prev.status = 500
    /\ last.status = 200

\* C7 (as claimed): for the request last handled and every backend outcome,
\* the synchronous entrypoint returns the status and body the asynchronous
\* one returned.
C7_SurfacesAgree ==
    last.route # "none"
        => \A o \in (IF last.outcome = NoOutcome THEN OutcomesWhen(last.backend)
                                                 ELSE {last.outcome}) :
              LET s == routes_answer(last.route, last.body, o)
              IN  s.status = last.status /\ s.resp = last.resp

\* C9 (as claimed): the service is only ever called with a non-empty string,
\* and a request whose prompt is absent, empty or not a string is answered
\* 4xx without a call of the service.
C9_PromptNonEmptyString ==
    /\ last.svcCalls > 0 => (last.svcPrompt.t = "str" /\ last.svcPrompt.v # "")
    /\ (last.route = "invoke"
          /\ (last.body.prompt = NoPrompt \/ last.body.prompt = Str("")
                \/ last.body.prompt.t # "str"))
        => (last.status \in 400..499 /\ last.svcCalls = 0)

\* C10: no state is carried across requests: the service object is the one
\* built at import, a request whose backend call succeeds gets 200 also
\* right after a failed request, and a request equal to the one before it
\* (same body, same backend outcome) gets the same status and body.
C10_RequestsIsolated ==
    /\ \E is_ec2 \in BOOLEAN : service = model_api_module(is_ec2).bedrock_service
    /\ (prev.status \in {422, 500} /\ last.route = "invoke" /\ last.outcome.kind = "ok")
         => last.status = 200
    /\ (prev.route = last.route /\ prev.body = last.body /\ prev.outcome = last.outcome)
         => (prev.status = last.status /\ prev.resp = last.resp)

C10_Witness ==
    /\ prev.route = "invoke"
    /\ prev.status = 500
    /\ last.route = "invoke"
    /\ last.outcome.kind = "ok"
    /\ last.status = 200

(***************************************************************************)
(* Properties of BedrockService, checked under ServiceSpec                 *)
(***************************************************************************)
\* C11: every call of invoke_model sends model id anthropic.claude-v2 with
\* max tokens 2048, temperature 0.7, top-p 1 and the one stop sequence
\* "\n\nHuman:", whatever the prompt, and the endpoint reads the prompt as it
\* was passed; on a parsed response the call returns exactly generated_text
\* (the completion, "" when absent), model_id (the fixed id), prompt_tokens
\* and completion_tokens (each the backend's value, 0 when absent).
C11_FixedRequestNormalizedResponse ==
    call.made
        => /\ LET got == JsonLoads(call.wire)
              IN  /\ got.modelId = "anthropic.claude-v2"
                  /\ got.max_tokens_to_sample = 2048
                  /\ got.temperature = "0.7"
                  /\ got.top_p = 1
                  /\ got.stop_sequences = <<"\n\nHuman:">>
                  /\ got.prompt = call.prompt
           /\ call.outcome.kind = "ok"
                => /\ ~call.raised
                   /\ call.value =
                        [generated_text |-> IF call.outcome.hasCompletion
                                              THEN call.outcome.completion ELSE "",
                         model_id |-> "anthropic.claude-v2",
                         prompt_tokens |-> IF call.outcome.hasPtok THEN call.outcome.ptok ELSE 0,
                         completion_tokens |-> IF call.outcome.hasCtok THEN call.outcome.ctok ELSE 0,
                         set |-> TRUE]

C11_Witness ==
    /\ call.made
    /\ call.prompt = Str("p2")
    /\ JsonLoads(call.wire).prompt = Str("p2")
    /\ call.outcome.kind = "ok"
    /\ ~call.outcome.hasCompletion
    /\ call.outcome.hasPtok /\ call.outcome.ptok = 3
    /\ ~call.outcome.hasCtok
    /\ call.value.generated_text = ""
    /\ call.value.prompt_tokens = 3
    /\ call.value.completion_tokens = 0

(***************************************************************************)
(* Properties of ModelClient, checked under ClientSpec                     *)
(***************************************************************************)
\* the server answered 503 to every attempt of the finished call
All503 == cl.pc = "done" /\ cl.first = Answered(503) /\ cl.uniform

\* the waits grow exponentially: none before the first retry, one second
\* (two half seconds) before the second, and twice the previous one after it
SleepsGrowExponentially ==
    \A i \in 1..Len(cl.sleeps) :
        cl.sleeps[i] = IF i = 1 THEN 0 ELSE IF i = 2 THEN 2 ELSE 2 * cl.sleeps[i - 1]

\* the finished call failed on a timeout
TimedOut == cl.pc = "done" /\ cl.lastAnswer \in {ReadTimeout, ConnectTimeout}

\* the error types that mean a timeout: the built-in TimeoutError raised by
\* the client itself and the timeout classes of requests
TimeoutTypes == {"TimeoutError"} \cup RequestsTimeouts

\* C5 (as claimed): for invoke_model and for health_check, a server that
\* answers 503 to every attempt is tried 1 + max_retries times, with an
\* exponentially growing wait between attempts, and then the call raises.
C5_RetriesOn503 ==
    All503 => /\ cl.attempts = 1 + cl.max_retries
              /\ Len(cl.sleeps) = cl.max_retries
              /\ SleepsGrowExponentially
              /\ cl.result.kind = "raised"

\* C5 (amended): against a server that answers 503 to every attempt,
\* health_check (GET) is tried 1 + max_retries times, with an exponentially
\* growing wait between attempts, and then raises RetryError; invoke_model
\* (POST) is tried once, waits for nothing and raises HTTPError.
C5_RetriesOn503OnlyForGet ==
    All503 => IF cl.op = "health_check"
                THEN /\ cl.attempts = 1 + cl.max_retries
                     /\ Len(cl.sleeps) = cl.max_retries
                     /\ SleepsGrowExponentially
                     /\ cl.result = Raised("RetryError")
                ELSE /\ cl.attempts = 1
                     /\ cl.sleeps = <<>>
                     /\ cl.result = Raised("HTTPError")

C5_Witness ==
    /\ All503
    /\ cl.op = "health_check"
    /\ cl.max_retries = 3
    /\ cl.attempts = 4
    /\ cl.sleeps = <<0, 2, 4>>
    /\ cl.result.kind = "raised"

\* C6 (as claimed): for invoke_model and for health_check, a call that ends
\* on a timeout raises an error of a timeout type, no call that fails for
\* another reason raises that type, and the call was attempted at most
\* 1 + max_retries times.
C6_TimeoutIsSpecific ==
    /\ TimedOut => /\ cl.result.kind = "raised"
                   /\ cl.result.type \in TimeoutTypes
                   /\ cl.attempts <= 1 + cl.max_retries
    /\ (cl.pc = "done" /\ ~TimedOut /\ cl.result.kind = "raised")
         => cl.result.type \notin TimeoutTypes

\* the answer is a response with a 4xx or 5xx status
IsErrorStatus(a) == a.kind = "status" /\ a.code \in 400..599

IsClientError(a) == a.kind = "status" /\ a.code \in 400..499

C8_ErrorsBecomeFailureSignals ==
    (aws.op # "none" /\ aws.provider # "ok")
        => /\ aws.result.kind = "returned"
           /\ aws.result.value \in {PyFalse, PyList(<<>>), PyNone}

\* the object and the files hold what the last setup_local_credentials call
\* was given: the profile's keys, its region, and a session and clients built
\* from the profile and region
IsSetUp ==
    /\ home.credentials[aws.args.profile_name]
         = Credential(aws.args.aws_access_key_id, aws.args.aws_secret_access_key)
    /\ home.config[ConfigSection(aws.args.profile_name)] = aws.args.region
    /\ utils.session = [profile |-> aws.args.profile_name, region |-> aws.args.region]
    /\ utils.built_from = utils.session

\* C12 (as claimed): setup_local_credentials returns True exactly when the
\* credentials were set up: off EC2, with the file writes and the session
\* and client creation succeeding, it writes the profile to both files,
\* replaces the session and the five clients and returns True; on EC2 it
\* returns False and leaves the files, the session and the clients as they
\* were.
C12_SetupReturnsTrueWhenSetUp ==
    aws.op = "setup_local_credentials"
        => /\ (~aws.args.self.is_ec2 /\ aws.provider = "ok" /\ aws.args.sdk = "ok")
                => (aws.result = Gave(PyTrue) /\ IsSetUp)
           /\ aws.args.self.is_ec2
                => (aws.result = Gave(PyFalse) /\ home = aws.args.files /\ utils = aws.args.self)
           /\ aws.result = Gave(PyTrue) => IsSetUp

====
